---- MODULE Spec2Model ----
(***************************************************************************)
(* A model of SoapLibrary (src/SoapLibrary/SoapLibrary.py): one library    *)
(* instance (client, url, response_obj), its keywords, and the XML data    *)
(* the keywords work on.                                                   *)
(*                                                                         *)
(* XML text (a file's content, a request string, a response body) is a     *)
(* sequence of lexical tokens: start tags, character data, end tags.  A    *)
(* parsed tree is the sequence of its elements in document order, each     *)
(* with its qualified name, its text (character data before the first      *)
(* child), its tail (character data after its end tag) and the position    *)
(* of its parent (0 for the root).                                         *)
(***************************************************************************)
EXTENDS Integers, Sequences, FiniteSets, TLC

VARIABLES
    client,        \* self.client: NoneObj or the zeep client of the last successful Client(...)
    url,           \* self.url: None or the address the XML sends post to
    response_obj,  \* self.response_obj: NoneObj or a raw transport response
    files,         \* the file system: path -> XML text (token sequence), for the paths that exist
    created,       \* number of clients built so far (gives each client its identity)
    sends,         \* number of responses the transport has returned so far (gives each its identity)
    received,      \* history: the raw response of the most recent send, and of the most recent XML send
    lastCreate,    \* history: the most recent Create SOAP Client call and how it ended
    lastCall       \* the last keyword call: its name, its arguments and its outcome

vars == <<client, url, response_obj, files, created, sends, received, lastCreate, lastCall>>

-----------------------------------------------------------------------------
(* Python values *)

\* None in a slot that otherwise holds a string (a url, an element's text, status).
None == "None"

\* None in a slot that otherwise holds an object (the client, the response).
NoneObj == [type |-> "NoneType"]

\* A call's outcome: the value it returns or the exception it raises.
Return(v) == [outcome |-> "return", value |-> v]

Raise(exc, msg) == [outcome |-> "raise", exc |-> exc, msg |-> msg]

\* seq[i] for a Python list of length len: is index i (0-based, negative from the end) in range.
PyInRange(len, i) == -len <= i /\ i < len

\* The 1-based position Python's seq[i] selects.
PyPos(len, i) == IF i >= 0 THEN i + 1 ELSE len + i + 1

-----------------------------------------------------------------------------
(* Bounds and alphabets *)

\* Largest number of elements in an input tree.
MaxNodes == 4

\* Indexes tried by the field lookup are -MaxIndex .. MaxIndex + 1, occurrences
\* tried by the editor are -MaxIndex .. MaxIndex.
MaxIndex == 3

\* Largest number of (tag, value) pairs in the editor's mapping.
MaxPairs == 2

\* Largest number of clients built in one run of the instance.
MaxClients == 2

\* Largest number of responses the transport returns in one run of the instance.
MaxSends == 2

\* The indentation of the pretty printer at a nesting level: two spaces a level.
RECURSIVE Indent(_)
Indent(level) == IF level = 0 THEN "" ELSE "  " \o Indent(level - 1)

\* Strings of the alphabet that consist of whitespace only.
WhitespaceOnly == {" ", "\n"} \cup {"\n" \o Indent(level) : level \in 1..MaxNodes}

\* s.strip() is non-empty (s a string, not None).
StripNonEmpty(s) == s # "" /\ s \notin WhitespaceOnly

\* Qualified element names: a namespace prefix ("" for none) and a local name.
QName(prefix, local) == [prefix |-> prefix, local |-> local]

\* An element of a tree.
Node(name, text, tail, parent) == [name |-> name, text |-> text, tail |-> tail, parent |-> parent]

-----------------------------------------------------------------------------
(* XML text <-> tree: etree.tostring and etree.fromstring *)

TokOpen(name) == [tok |-> "open", name |-> name]

TokText(s) == [tok |-> "text", s |-> s]

TokClose(name) == [tok |-> "close", name |-> name]

\* The children of element i (0: the root), in document order.
ChildrenOf(tree, i) == SelectSeq([j \in 1..Len(tree) |-> j], LAMBDA j : tree[j].parent = i)

\* Character data as serialized: nothing for None and for the empty string.
TextTokens(s) == IF s = None \/ s = "" THEN <<>> ELSE <<TokText(s)>>

RECURSIVE SerializeNode(_, _)
RECURSIVE SerializeAll(_, _)
\* etree.tostring of the subtree at element i, its tail included.
SerializeNode(tree, i) ==
    <<TokOpen(tree[i].name)>> \o TextTokens(tree[i].text)
        \o SerializeAll(tree, ChildrenOf(tree, i))
        \o <<TokClose(tree[i].name)>> \o TextTokens(tree[i].tail)

SerializeAll(tree, kids) ==
    IF kids = <<>> THEN <<>>
    ELSE SerializeNode(tree, Head(kids)) \o SerializeAll(tree, Tail(kids))

\* etree.tostring(xml): the text of a whole tree.
tostring(tree) == SerializeNode(tree, 1)

\* An element holds character data among its children: its own text, or the
\* tail of a child.
HasTextChild(tree, i) ==
    \/ TextTokens(tree[i].text) # <<>>
    \/ \E j \in 1..Len(tree) : tree[j].parent = i /\ TextTokens(tree[j].tail) # <<>>

RECURSIVE PrettyNode(_, _, _, _)
RECURSIVE PrettyAll(_, _, _, _)
\* The subtree at element i as the pretty printer writes it at a nesting level:
\* an element without character data among its children has each child on a
\* line of its own, indented; below an element with character data nothing is
\* indented (format: indentation is still on).
PrettyNode(tree, i, level, format) ==
    LET kids == ChildrenOf(tree, i)
        inner == format /\ ~HasTextChild(tree, i)
    IN <<TokOpen(tree[i].name)>> \o TextTokens(tree[i].text)
        \o (IF inner /\ kids # <<>>
            THEN PrettyAll(tree, kids, level + 1, TRUE) \o <<TokText("\n" \o Indent(level))>>
            ELSE PrettyAll(tree, kids, level + 1, FALSE))
        \o <<TokClose(tree[i].name)>> \o TextTokens(tree[i].tail)

PrettyAll(tree, kids, level, format) ==
    IF kids = <<>> THEN <<>>
    ELSE (IF format THEN <<TokText("\n" \o Indent(level))>> ELSE <<>>)
            \o PrettyNode(tree, Head(kids), level, format)
            \o PrettyAll(tree, Tail(kids), level, format)

\* etree.tostring(xml, pretty_print=True): indented, and ended by a line break.
tostring_pretty(tree) == PrettyNode(tree, 1, 0, TRUE) \o <<TokText("\n")>>

\* The parser's state: the elements so far, the stack of open elements, and where
\* character data would go ("text" of the open element, "tail" of the element
\* just closed, "none" after character data).
ParseState(nodes, stack, slot, closed) == [nodes |-> nodes, stack |-> stack, slot |-> slot, closed |-> closed]

ParseError == [error |-> "XMLSyntaxError"]

\* One token consumed.
ParseToken(st, t) ==
    IF t.tok = "open" THEN
        IF st.stack = <<>> /\ st.nodes # <<>> THEN ParseError
        ELSE LET parent == IF st.stack = <<>> THEN 0 ELSE st.stack[Len(st.stack)]
                 nodes == Append(st.nodes, Node(t.name, None, None, parent))
             IN ParseState(nodes, Append(st.stack, Len(nodes)), "text", 0)
    ELSE IF t.tok = "close" THEN
        IF st.stack = <<>> THEN ParseError
        ELSE LET top == st.stack[Len(st.stack)]
             IN IF st.nodes[top].name # t.name THEN ParseError
                ELSE ParseState(st.nodes, SubSeq(st.stack, 1, Len(st.stack) - 1), "tail", top)
    ELSE \* character data
        IF st.stack = <<>> THEN
            IF t.s \in WhitespaceOnly THEN st ELSE ParseError
        ELSE IF st.slot = "text" THEN
            LET top == st.stack[Len(st.stack)]
            IN ParseState([st.nodes EXCEPT ![top].text = t.s], st.stack, "none", 0)
        ELSE IF st.slot = "tail" THEN
            ParseState([st.nodes EXCEPT ![st.closed].tail = t.s], st.stack, "none", 0)
        ELSE ParseError

RECURSIVE ParseFrom(_, _, _)
ParseFrom(tokens, i, st) ==
    IF "error" \in DOMAIN st THEN st
    ELSE IF i > Len(tokens) THEN
        IF st.stack = <<>> /\ st.nodes # <<>> THEN st ELSE ParseError
    ELSE ParseFrom(tokens, i + 1, ParseToken(st, tokens[i]))

\* etree.fromstring(text): [ok |-> TRUE, tree |-> t], or ok = FALSE for an XMLSyntaxError.
FromString(tokens) ==
    LET st == ParseFrom(tokens, 1, ParseState(<<>>, <<>>, "none", 0))
    IN IF "error" \in DOMAIN st THEN [ok |-> FALSE] ELSE [ok |-> TRUE, tree |-> st.nodes]

-----------------------------------------------------------------------------
(* XPath: the locators the library builds *)

\* name() of an element: its qualified name as written, prefix included.
NameOf(node) ==
    IF node.name.prefix = "" THEN node.name.local
    ELSE node.name.prefix \o ":" \o node.name.local

\* i is a proper ancestor of j.
RECURSIVE IsAncestor(_, _, _)
IsAncestor(tree, i, j) ==
    IF j = 0 \/ tree[j].parent = 0 THEN FALSE
    ELSE tree[j].parent = i \/ IsAncestor(tree, i, tree[j].parent)

\* The elements of a set of positions, in document order.
InDocumentOrder(tree, set) == SelectSeq([j \in 1..Len(tree) |-> j], LAMBDA j : j \in set)

\* _replace_xpath_by_local_name: the locator //*[name()='tag'], as the list of its steps.
\* (A tag holds no quote, so the text built is always this path.)
_replace_xpath_by_local_name(xpath_tag) == <<xpath_tag>>

RECURSIVE ConcatLocators(_)
ConcatLocators(tags) ==
    IF tags = <<>> THEN <<>>
    ELSE _replace_xpath_by_local_name(Head(tags)) \o ConcatLocators(Tail(tags))

\* _parse_xpath: a single tag, or a list of tags whose locators are concatenated.
\* tags is [list |-> FALSE, tag |-> t] or [list |-> TRUE, tags |-> <<t1, ...>>].
_parse_xpath(tags) ==
    IF tags.list THEN ConcatLocators(tags.tags)
    ELSE _replace_xpath_by_local_name(tags.tag)

\* One step //*[name()='tag'] from a context: 0 is the document, so every element
\* is below it; from an element, its proper descendants.
XPathStep(tree, context, tag) ==
    {j \in 1..Len(tree) :
        /\ NameOf(tree[j]) = tag
        /\ \E c \in context : c = 0 \/ IsAncestor(tree, c, j)}

RECURSIVE XPathFrom(_, _, _)
XPathFrom(tree, context, steps) ==
    IF steps = <<>> THEN context
    ELSE XPathFrom(tree, XPathStep(tree, context, Head(steps)), Tail(steps))

\* xml.xpath(locator): the matching elements' positions in document order;
\* the empty locator is no XPath expression.
XPath(tree, steps) ==
    IF steps = <<>> THEN [ok |-> FALSE]
    ELSE [ok |-> TRUE, list |-> InDocumentOrder(tree, XPathFrom(tree, {0}, steps))]

-----------------------------------------------------------------------------
(* Get Data From XML By Tag *)

\* return data_list[new_index].text, by Python's list indexing.
get_data_index(tree, data_list, new_index) ==
    IF PyInRange(Len(data_list), new_index)
    THEN Return(tree[data_list[PyPos(Len(data_list), new_index)]].text)
    ELSE Raise("IndexError", "list index out of range")

get_data_from_xml_tag(xml, tag, index) ==
    LET new_index == index - 1
        data_list == XPath(xml, _parse_xpath(tag))
    IN IF ~data_list.ok THEN Raise("XPathEvalError", "Invalid expression")
       ELSE get_data_index(xml, data_list.list, new_index)

-----------------------------------------------------------------------------
(* Convert XML Response to Dictionary *)

\* Python values of the conversion: a string, a dict (its items in insertion
\* order) or a list.
PyStr(s) == [type |-> "str", s |-> s]

PyDict(items) == [type |-> "dict", items |-> items]

PyList(elems) == [type |-> "list", elems |-> elems]

Item(key, value) == [key |-> key, value |-> value]

\* The position of key among a dict's items, 0 when absent.
KeyPos(items, key) ==
    IF \E p \in 1..Len(items) : items[p].key = key
    THEN CHOOSE p \in 1..Len(items) : items[p].key = key
    ELSE 0

\* key = element.tag.split('}')[1] if '}' in element.tag else element.tag
TagKey(node) == node.name.local

\* if key in result: ... else: result[key] = value.  result is the dict's items;
\* the outcome is the items after the statement, or the exception it raises.
StoreValue(result, key, value) ==
    LET p == KeyPos(result, key)
    IN IF p = 0 THEN Return(Append(result, Item(key, value)))
       ELSE IF result[p].value.type = "list"
            THEN Return([result EXCEPT ![p].value = PyList(Append(result[p].value.elems, value))])
       ELSE IF result[p].value.type = "dict"
            THEN Return([result EXCEPT ![p].value = PyList(<<result[p].value, value>>)])
       ELSE Raise("AttributeError", "'str' object has no attribute 'copy'")

RECURSIVE convert_response_dict_at(_, _)
RECURSIVE ConvertChildren(_, _, _)
\* The loop over xml_etree.iterchildren(), from the children still to visit.
ConvertChildren(tree, kids, result) ==
    IF kids = <<>> THEN Return(PyDict(result))
    ELSE LET element == tree[Head(kids)]
             key == TagKey(element)
             value == IF element.text # None /\ StripNonEmpty(element.text)
                      THEN Return(PyStr(element.text))
                      ELSE convert_response_dict_at(tree, Head(kids))
         IN IF value.outcome = "raise" THEN value
            ELSE LET stored == StoreValue(result, key, value.value)
                 IN IF stored.outcome = "raise" THEN stored
                    ELSE ConvertChildren(tree, Tail(kids), stored.value)

\* convert_response_dict of the element at position i.
convert_response_dict_at(tree, i) == ConvertChildren(tree, ChildrenOf(tree, i), <<>>)

\* convert_response_dict(xml_etree), xml_etree the root of a tree.
convert_response_dict(xml_etree) == convert_response_dict_at(xml_etree, 1)

-----------------------------------------------------------------------------
(* Files *)

\* A path: a directory and a file name.
Path(dir, name) == [dir |-> dir, name |-> name]

\* _convert_xml_to_raw_text: the content of the file, or the error of opening it.
_convert_xml_to_raw_text(fs, xml_file_path) ==
    IF xml_file_path \in DOMAIN fs THEN Return(fs[xml_file_path])
    ELSE Raise("FileNotFoundError", "No such file or directory")

\* _convert_string_to_xml: etree.fromstring(xml_string).
_convert_string_to_xml(xml_string) == FromString(xml_string)

\* The path _save_to_file writes: <file_name>.xml in save_folder.
NewFilePath(save_folder, file_name) == Path(save_folder, file_name \o ".xml")

\* _save_to_file: the file system after the write.
_save_to_file(fs, save_folder, file_name, text) ==
    LET new_file_path == NewFilePath(save_folder, file_name)
    IN [p \in DOMAIN fs \cup {new_file_path} |-> IF p = new_file_path THEN text ELSE fs[p]]

-----------------------------------------------------------------------------
(* Edit XML Request *)

\* repeated_tags is [int |-> FALSE, s |-> "All"] (a string that is no number) or
\* [int |-> TRUE, n |-> k] (the number k, or the string of its digits).
IsAll(repeated_tags) == ~repeated_tags.int /\ repeated_tags.s = "All"

\* The tree with the text of every element of positions set to value.
SetText(tree, positions, value) ==
    [j \in 1..Len(tree) |-> IF j \in positions THEN [tree[j] EXCEPT !.text = value] ELSE tree[j]]

\* A tag with no match: the pair is skipped (logger.warn, continue).
EditNotFound_raises(xml, key) == Raise("Exception", "Tag not found")

EditNotFound(xml, key) == Return(xml)

\* The positions one pair rewrites among the matches of its tag (count >= 1),
\* or the exception of selecting them.
EditSelect_first_only(matches, repeated_tags) == Return({matches[1]})

EditSelect(matches, repeated_tags) ==
    LET count == Len(matches)
    IN IF IsAll(repeated_tags) \/ count < 2
       THEN Return({matches[i] : i \in 1..count})
       ELSE IF ~repeated_tags.int
            THEN Raise("ValueError", "invalid literal for int() with base 10")
       ELSE IF ~PyInRange(count, repeated_tags.n)
            THEN Raise("IndexError", "list index out of range")
       ELSE Return({matches[PyPos(count, repeated_tags.n)]})

\* One iteration of the loop over new_values_dict.items(): the tree after it, or
\* the exception raised.
EditPair(xml, key, value, repeated_tags) ==
    LET matches == XPath(xml, _replace_xpath_by_local_name(key)).list
    IN IF Len(matches) = 0 THEN EditNotFound(xml, key)
       ELSE LET selected == EditSelect(matches, repeated_tags)
            IN IF selected.outcome = "raise" THEN selected
               ELSE Return(SetText(xml, selected.value, value))

RECURSIVE EditPairs(_, _, _)
EditPairs(xml, items, repeated_tags) ==
    IF items = <<>> THEN Return(xml)
    ELSE LET step == EditPair(xml, Head(items).key, Head(items).value, repeated_tags)
         IN IF step.outcome = "raise" THEN step
            ELSE EditPairs(step.value, Tail(items), repeated_tags)

\* edit_xml: [result |-> the outcome, fs |-> the file system after the call].
\* new_values_dict is [dict |-> TRUE, items |-> <<Item(tag, value), ...>>] with
\* distinct keys, or [dict |-> FALSE] for a value that is no dictionary.
edit_xml(fs, xml_file_path, new_values_dict, edited_request_name, repeated_tags) ==
    LET string_xml == _convert_xml_to_raw_text(fs, xml_file_path)
    IN IF string_xml.outcome = "raise" THEN [result |-> string_xml, fs |-> fs]
       ELSE LET xml == _convert_string_to_xml(string_xml.value)
            IN IF ~xml.ok
               THEN [result |-> Raise("XMLSyntaxError", "not well-formed"), fs |-> fs]
               ELSE IF ~new_values_dict.dict
               THEN [result |-> Raise("Exception", "new_values_dict argument must be a dictionary"),
                     fs |-> fs]
               ELSE LET edited == EditPairs(xml.tree, new_values_dict.items, repeated_tags)
                    IN IF edited.outcome = "raise" THEN [result |-> edited, fs |-> fs]
                       ELSE [result |-> Return(NewFilePath(xml_file_path.dir, edited_request_name)),
                             fs |-> _save_to_file(fs, xml_file_path.dir, edited_request_name,
                                                  tostring(edited.value))]

-----------------------------------------------------------------------------
(* Input trees *)

\* The names of the elements below the root: plain and prefixed.
ElementNames == {QName("", "b"), QName("", "c"), QName("ns", "b")}

\* The root of every input tree: <a> with no text of its own.
RootNode == Node(QName("", "a"), None, None, 0)

\* The open elements after the last element of a tree: the elements a next
\* element in document order can be a child of.
RECURSIVE AncestorsOrSelf(_, _)
AncestorsOrSelf(tree, j) ==
    IF j = 0 THEN {} ELSE {j} \cup AncestorsOrSelf(tree, tree[j].parent)

\* The trees of exactly n elements.  The element at position i has a text of
\* its own, ToString(i), or one of blanks.
RECURSIVE TreesOfSize(_, _)
TreesOfSize(n, blanks) ==
    IF n = 1 THEN {<<RootNode>>}
    ELSE UNION {
            {Append(t, Node(nm, tx, None, p)) :
                nm \in ElementNames, tx \in blanks \cup {ToString(n)},
                p \in AncestorsOrSelf(t, Len(t))}
            : t \in TreesOfSize(n - 1, blanks)}

Trees(blanks) == UNION {TreesOfSize(n, blanks) : n \in 1..MaxNodes}

\* The folder and the file the input tree is read from.
Folder == "dir"

RequestPath == Path(Folder, "request.xml")

\* The trees of the files that hold well-formed XML.
ParsedFiles(fs) ==
    {FromString(fs[p]).tree : p \in {q \in DOMAIN fs : FromString(fs[q]).ok}}

-----------------------------------------------------------------------------
(* The keywords that neither read nor write the instance *)

CallOf(op, args, result) == [op |-> op, args |-> args, result |-> result]

NoCall == [op |-> "none"]

GetDataFromXmlTag(xml, tag, index) ==
    /\ lastCall' = CallOf("Get Data From XML By Tag",
                          [xml |-> xml, tag |-> tag, index |-> index],
                          get_data_from_xml_tag(xml, tag, index))
    /\ UNCHANGED <<client, url, response_obj, files, created, sends, received, lastCreate>>

ConvertResponseDict(xml_etree) ==
    /\ lastCall' = CallOf("Convert XML Response to Dictionary",
                          [xml_etree |-> xml_etree],
                          convert_response_dict(xml_etree))
    /\ UNCHANGED <<client, url, response_obj, files, created, sends, received, lastCreate>>

EditXml(xml_file_path, new_values_dict, edited_request_name, repeated_tags) ==
    LET done == edit_xml(files, xml_file_path, new_values_dict, edited_request_name, repeated_tags)
    IN /\ lastCall' = CallOf("Edit XML Request",
                             [xml_file_path |-> xml_file_path, new_values_dict |-> new_values_dict,
                              edited_request_name |-> edited_request_name,
                              repeated_tags |-> repeated_tags, before |-> files],
                             done.result)
       /\ files' = done.fs
       /\ UNCHANGED <<client, url, response_obj, created, sends, received, lastCreate>>

-----------------------------------------------------------------------------
(* The instance after construction *)

InitInstance ==
    /\ client = NoneObj
    /\ url = None
    /\ response_obj = NoneObj
    /\ created = 0
    /\ sends = 0
    /\ received = [last |-> NoneObj, lastXml |-> NoneObj]
    /\ lastCreate = NoneObj
    /\ lastCall = NoCall

-----------------------------------------------------------------------------
(* Field lookup applied to every tree, tag and index of the bounds *)

\* The tags looked up: the names of the alphabet, one that no element has, and
\* lists of tags.
SingleTags == {"a", "b", "c", "ns:b", "zz"}

LookupTags ==
    {[list |-> FALSE, tag |-> t] : t \in SingleTags}
        \cup {[list |-> TRUE, tags |-> ts] : ts \in {<<>>, <<"b">>, <<"a", "b">>, <<"b", "c">>}}

LookupIndexes == (-MaxIndex)..(MaxIndex + 1)

InitField ==
    /\ InitInstance
    /\ \E t \in Trees({None}) : files = (RequestPath :> tostring(t))

NextField ==
    /\ lastCall = NoCall
    /\ \E xml \in ParsedFiles(files), tag \in LookupTags, index \in LookupIndexes :
            GetDataFromXmlTag(xml, tag, index)

SpecField == InitField /\ [][NextField]_vars

-----------------------------------------------------------------------------
(* The conversion applied to every tree of the bounds *)

InitDict ==
    /\ InitInstance
    /\ \E t \in Trees({None, " "}) : files = (RequestPath :> tostring(t))

NextDict ==
    /\ lastCall = NoCall
    /\ \E xml \in ParsedFiles(files) : ConvertResponseDict(xml)

SpecDict == InitDict /\ [][NextDict]_vars

-----------------------------------------------------------------------------
(* The editor applied to every tree, mapping and occurrence of the bounds *)

\* The mappings: up to MaxPairs pairs with distinct tags, in every order; the
\* pair at position i of the mapping carries the value "v<i>".
EditTags == {"b", "c", "ns:b", "zz"}

RECURSIVE ItemLists(_)
ItemLists(n) ==
    IF n = 0 THEN {<<>>}
    ELSE {Append(items, Item(k, "v" \o ToString(n))) :
            items \in {l \in ItemLists(n - 1) : Len(l) = n - 1},
            k \in EditTags}

DistinctKeys(items) == \A i, j \in 1..Len(items) : items[i].key = items[j].key => i = j

Mappings ==
    {[dict |-> TRUE, items |-> items] :
        items \in {l \in UNION {ItemLists(n) : n \in 0..MaxPairs} : DistinctKeys(l)}}
        \cup {[dict |-> FALSE]}

Occurrences ==
    {[int |-> FALSE, s |-> s] : s \in {"All", "first"}}
        \cup {[int |-> TRUE, n |-> n] : n \in (-MaxIndex)..MaxIndex}

InitEdit ==
    /\ InitInstance
    /\ \E t \in Trees({}) : files = (RequestPath :> tostring(t))

NextEdit ==
    /\ lastCall = NoCall
    /\ \E m \in Mappings, occ \in Occurrences :
            EditXml(RequestPath, m, "edited", occ)

SpecEdit == InitEdit /\ [][NextEdit]_vars

-----------------------------------------------------------------------------
(* Claims about the field lookup, the conversion and the editor *)

IsLookup == lastCall.op = "Get Data From XML By Tag"

IsConvert == lastCall.op = "Convert XML Response to Dictionary"

IsEdit == lastCall.op = "Edit XML Request"

\* The elements whose local name is tag, in document order.
MatchesByLocalName(tree, tag) ==
    InDocumentOrder(tree, {j \in 1..Len(tree) : tree[j].name.local = tag})

\* C4: with N the number of elements whose local name is T, the lookup of T with
\* index k returns the text of the k-th of them in document order when
\* 1 <= k <= N, and raises for every other k (0, negative, above N, and every k
\* when N = 0).
C4_LookupReturnsKthOrFails ==
    (IsLookup /\ ~lastCall.args.tag.list) =>
        LET xml == lastCall.args.xml
            k == lastCall.args.index
            matches == MatchesByLocalName(xml, lastCall.args.tag.tag)
        IN IF 1 <= k /\ k <= Len(matches)
           THEN lastCall.result = Return(xml[matches[k]].text)
           ELSE lastCall.result.outcome = "raise"

\* The mapping the conversion is to produce: a key met once maps to its value,
\* met a second time to the list of the two values, and each further value is
\* appended, whether the values are texts or nested mappings.
Collapse(result, key, value) ==
    LET p == KeyPos(result, key)
    IN IF p = 0 THEN Append(result, Item(key, value))
       ELSE IF result[p].value.type = "list"
            THEN [result EXCEPT ![p].value = PyList(Append(result[p].value.elems, value))]
       ELSE [result EXCEPT ![p].value = PyList(<<result[p].value, value>>)]

RECURSIVE CollapsedMapping(_, _)
RECURSIVE CollapseChildren(_, _, _)
CollapseChildren(tree, kids, result) ==
    IF kids = <<>> THEN PyDict(result)
    ELSE LET element == tree[Head(kids)]
             value == IF element.text # None /\ StripNonEmpty(element.text)
                      THEN PyStr(element.text)
                      ELSE CollapsedMapping(tree, Head(kids))
         IN CollapseChildren(tree, Tail(kids), Collapse(result, element.name.local, value))

CollapsedMapping(tree, i) == CollapseChildren(tree, ChildrenOf(tree, i), <<>>)

\* C5: the conversion of every tree returns the mapping in which repeated
\* sibling keys are collapsed into a list in document order, for text values
\* as well as for nested mappings.
C5_RepeatedKeysCollapseToList ==
    IsConvert => lastCall.result = Return(CollapsedMapping(lastCall.args.xml_etree, 1))

\* The input tree and the output tree of an edit that returned.
EditInput == FromString(lastCall.args.before[lastCall.args.xml_file_path]).tree

EditOutput == FromString(files[lastCall.result.value]).tree

EditReturned == IsEdit /\ lastCall.result.outcome = "return"

\* The pair of the mapping whose tag names element j of the input, 0 if none.
PairOf(inp, j) == KeyPos(lastCall.args.new_values_dict.items, NameOf(inp[j]))

\* Element j is selected by its pair: every match when the occurrence is 'All'
\* or the tag has fewer than two matches, otherwise the match at position
\* int(which_occurrence) of the list of matches (0-based; as an index of a
\* Python list, a negative position counts from the end).
Selected(inp, j) ==
    LET occ == lastCall.args.repeated_tags
        matches == XPath(inp, <<NameOf(inp[j])>>).list
        count == Len(matches)
    IN IF IsAll(occ) \/ count < 2 THEN TRUE
       ELSE /\ occ.int
            /\ PyInRange(count, occ.n)
            /\ matches[PyPos(count, occ.n)] = j

\* C6: an edit that returns has written a file whose tree is the input tree
\* with the text of exactly the selected matches replaced by their pair's value:
\* the same elements in the same order, each selected element's text equal to
\* the value, every other element's text as in the input.
C6_EditChangesExactlySelected ==
    EditReturned =>
        LET inp == EditInput
            out == EditOutput
        IN /\ Len(out) = Len(inp)
           /\ \A j \in 1..Len(inp) :
                LET pair == PairOf(inp, j)
                IN /\ out[j].name = inp[j].name
                   /\ out[j].parent = inp[j].parent
                   /\ out[j].tail = inp[j].tail
                   /\ out[j].text =
                        IF pair # 0 /\ Selected(inp, j)
                        THEN lastCall.args.new_values_dict.items[pair].value
                        ELSE inp[j].text

\* C6 witness: an edit with occurrence 1 returned, one tag of the
\* mapping has three matches, and one of them kept its text while another
\* got the value.
C6_Witness ==
    /\ EditReturned
    /\ lastCall.args.repeated_tags.int
    /\ lastCall.args.repeated_tags.n = 1
    /\ LET inp == EditInput
           out == EditOutput
       IN \E i, j \in 1..Len(inp) :
            /\ i # j
            /\ NameOf(inp[i]) = NameOf(inp[j])
            /\ Len(XPath(inp, <<NameOf(inp[j])>>).list) = 3
            /\ PairOf(inp, j) # 0
            /\ out[j].text = lastCall.args.new_values_dict.items[PairOf(inp, j)].value
            /\ out[i].text = inp[i].text
            /\ out[i].text # out[j].text

\* The pairs of a mapping whose tag matches at least one element of the tree.
RECURSIVE KnownPairs(_, _)
KnownPairs(tree, items) ==
    IF items = <<>> THEN <<>>
    ELSE IF Len(XPath(tree, <<Head(items).key>>).list) = 0
         THEN KnownPairs(tree, Tail(items))
         ELSE <<Head(items)>> \o KnownPairs(tree, Tail(items))

HasUnknownTag ==
    /\ IsEdit
    /\ lastCall.args.new_values_dict.dict
    /\ LET inp == EditInput
       IN \E p \in 1..Len(lastCall.args.new_values_dict.items) :
            Len(XPath(inp, <<lastCall.args.new_values_dict.items[p].key>>).list) = 0

\* C7: a pair whose tag matches no element is skipped without failing the call.
\* The call then ends as the same call without these pairs ends: it fails only
\* where that call fails, and otherwise it returns the path of
\* <output_name>.xml in the input file's folder, and that file holds the tree
\* the remaining pairs produce; when no pair remains the call returns for
\* every occurrence argument.
C7_UnknownTagIsSkipped ==
    HasUnknownTag =>
        LET a == lastCall.args
            known == KnownPairs(EditInput, a.new_values_dict.items)
            without == edit_xml(a.before, a.xml_file_path, [dict |-> TRUE, items |-> known],
                                a.edited_request_name, a.repeated_tags)
            out == Path(a.xml_file_path.dir, a.edited_request_name \o ".xml")
        IN /\ lastCall.result = without.result
           /\ files = without.fs
           /\ lastCall.result.outcome = "return" =>
                /\ lastCall.result.value = out
                /\ out \in DOMAIN files
           /\ known = <<>> => lastCall.result.outcome = "return"

\* C7 witness: the first pair's tag is unknown, the second pair's tag has two
\* matches, the occurrence is 0, and the call returned with the second pair
\* applied.
C7_Witness ==
    /\ HasUnknownTag
    /\ EditReturned
    /\ lastCall.args.repeated_tags.int
    /\ lastCall.args.repeated_tags.n = 0
    /\ Len(lastCall.args.new_values_dict.items) = 2
    /\ LET inp == EditInput
           out == EditOutput
           items == lastCall.args.new_values_dict.items
       IN /\ Len(XPath(inp, <<items[1].key>>).list) = 0
          /\ Len(XPath(inp, <<items[2].key>>).list) = 2
          /\ \E j \in 1..Len(out) : out[j].text = items[2].value

-----------------------------------------------------------------------------
(* The services and the transport the instance talks to *)

DEFAULT_HEADERS == [Content_Type |-> "text/xml; charset=utf-8"]

\* The WSDL locations, and the address the service description at each one
\* advertises in its binding.
WsdlUrls == {"http://a/?wsdl", "http://b/?wsdl"}

BindingAddress(wsdl) == IF wsdl = "http://a/?wsdl" THEN "http://a/service" ELSE "http://b/service"

\* The operations every service description declares.
Operations == {"op"}

\* requests.Session with verify, cert and auth set.
Session(ssl_verify, client_cert, auth) == [verify |-> ssl_verify, cert |-> client_cert, auth |-> auth]

\* zeep.Client(url, transport=Transport(session=session)): the n-th client built.
Client(n, wsdl, session) ==
    [id |-> n, wsdl |-> wsdl, address |-> BindingAddress(wsdl), session |-> session]

\* The bodies a service answers with: a result, a fault, and text that is no XML.
ResultBody ==
    tostring(<<RootNode, Node(QName("", "b"), "1", None, 1), Node(QName("", "b"), "2", None, 1),
               Node(QName("", "c"), "3", None, 1)>>)

FaultBody == tostring(<<RootNode, Node(QName("ns", "b"), "fault", None, 1)>>)

NotXmlBody == <<TokText("Bad Gateway")>>

Answers ==
    { [status_code |-> 200, reason |-> "OK", text |-> ResultBody],
      [status_code |-> 500, reason |-> "Internal Server Error", text |-> FaultBody],
      [status_code |-> 502, reason |-> "Bad Gateway", text |-> NotXmlBody] }

\* The n-th raw response of the transport, for a POST to address.
Response(n, address, answer) ==
    [id |-> n, url |-> address, status_code |-> answer.status_code,
     reason |-> answer.reason, text |-> answer.text]

\* What transport.post_xml can end with: a response, or no connection.
PostOutcomes(address) ==
    {Return(Response(sends + 1, address, a)) : a \in Answers}
        \cup {Raise("ConnectionError", "Max retries exceeded")}

\* The tree of the answer that holds a result.
ResultTree == FromString(ResultBody).tree

\* The transport's history after a POST by an XML send (xml) or by an operation call.
Received(post, xml) ==
    IF post.outcome = "raise" THEN received
    ELSE [last |-> post.value, lastXml |-> IF xml THEN post.value ELSE received.lastXml]

Sends(post) == IF post.outcome = "raise" THEN sends ELSE sends + 1

-----------------------------------------------------------------------------
(* Create SOAP Client *)

\* self.url = url; ...; self.client = Client(self.url, ...); if use_binding_address:
\* self.url = self.client.service._binding_options['address'].
\* loads: the WSDL at url can be fetched and parsed.  The outcome is the
\* instance's client and url after the call, and the call's result.
create_soap_client_keeps_wsdl_url(url_arg, ssl_verify, client_cert, auth, use_binding_address, loads) ==
    IF ~loads
    THEN [client |-> client, url |-> url_arg,
          result |-> Raise("ConnectionError", "WSDL cannot be loaded")]
    ELSE [client |-> Client(created + 1, url_arg, Session(ssl_verify, client_cert, auth)),
          url |-> url_arg,
          result |-> Return(NoneObj)]

create_soap_client(url_arg, ssl_verify, client_cert, auth, use_binding_address, loads) ==
    IF ~loads
    THEN [client |-> client, url |-> url_arg,
          result |-> Raise("ConnectionError", "WSDL cannot be loaded")]
    ELSE LET built == Client(created + 1, url_arg, Session(ssl_verify, client_cert, auth))
         IN [client |-> built,
             url |-> IF use_binding_address THEN built.address ELSE url_arg,
             result |-> Return(NoneObj)]

CreateSoapClient(url_arg, ssl_verify, client_cert, auth, use_binding_address, loads) ==
    LET done == create_soap_client(url_arg, ssl_verify, client_cert, auth, use_binding_address, loads)
        args == [url |-> url_arg, ssl_verify |-> ssl_verify, client_cert |-> client_cert,
                 auth |-> auth, use_binding_address |-> use_binding_address]
    IN /\ created < MaxClients
       /\ client' = done.client
       /\ url' = done.url
       /\ created' = IF loads THEN created + 1 ELSE created
       /\ lastCreate' = [args |-> args, loads |-> loads]
       /\ lastCall' = CallOf("Create SOAP Client", args, done.result)
       /\ UNCHANGED <<response_obj, files, sends, received>>

-----------------------------------------------------------------------------
(* Call SOAP Method With XML, Call SOAP Method With String XML *)

HTTP_OK == 200

\* _parse_from_unicode: the response text parsed again as UTF-8 XML.
_parse_from_unicode(unicode_str) == FromString(unicode_str)

\* _check_and_print_response: the AssertionError raised, or a return.
_check_and_print_response_unconditional(response, etree_response, status) ==
    IF response.status_code # HTTP_OK
    THEN Raise("AssertionError",
               "Request Error! Status Code: " \o ToString(response.status_code)
                    \o "! Reason: " \o response.reason)
    ELSE Return(NoneObj)

_check_and_print_response(response, etree_response, status) ==
    IF status = None /\ response.status_code # HTTP_OK
    THEN Raise("AssertionError",
               "Request Error! Status Code: " \o ToString(response.status_code)
                    \o "! Reason: " \o response.reason)
    ELSE Return(NoneObj)

\* _save_response_object: the value of self.response_obj after it.
_save_response_object_first_only(response) ==
    IF response_obj = NoneObj THEN response ELSE response_obj

_save_response_object(response) == response

\* self.response_obj after an XML send that received a response: the response is
\* saved as soon as post_xml returns, before it is parsed and before the status
\* check, so the outcome of those two has no part in it.
ResponseObjAfterSend_saved_after_check(response, status) ==
    IF status = None /\ response.status_code # HTTP_OK
    THEN response_obj
    ELSE _save_response_object(response)

ResponseObjAfterSend(response, status) == _save_response_object(response)

\* The lines after the response is saved: parse it, check it, return the tree.
AfterSave(response, status) ==
    LET etree_response == _parse_from_unicode(response.text)
    IN IF ~etree_response.ok THEN Raise("XMLSyntaxError", "not well-formed")
       ELSE LET checked == _check_and_print_response(response, etree_response.tree, status)
            IN IF checked.outcome = "raise" THEN checked
               ELSE Return(etree_response.tree)

\* A keyword call that may have posted: the POST made (the client and the address
\* used) and the response received, NoneObj where there was none.
SendOf(op, args, post, response, result) ==
    [op |-> op, args |-> args, post |-> post, response |-> response, result |-> result]

\* The address self.client.transport.post_xml is called with.
PostAddress == url

\* From the POST on (the same lines in both keywords): envelope is the outcome
\* of reading and parsing the request, post the outcome of transport.post_xml.
PostXml(op, args, envelope, headers, status, post) ==
    IF envelope.outcome = "raise"
    THEN /\ lastCall' = SendOf(op, args, NoneObj, NoneObj, envelope)
         /\ UNCHANGED <<client, url, response_obj, files, created, sends, received, lastCreate>>
    ELSE IF client = NoneObj
    THEN /\ lastCall' = SendOf(op, args, NoneObj, NoneObj,
                               Raise("AttributeError", "'NoneType' object has no attribute 'transport'"))
         /\ UNCHANGED <<client, url, response_obj, files, created, sends, received, lastCreate>>
    ELSE LET made == [client |-> client, address |-> PostAddress,
                      envelope |-> envelope.value, headers |-> headers]
         IN /\ sends < MaxSends
            /\ sends' = Sends(post)
            /\ received' = Received(post, TRUE)
            /\ response_obj' = IF post.outcome = "raise" THEN response_obj
                               ELSE ResponseObjAfterSend(post.value, status)
            /\ lastCall' = IF post.outcome = "raise"
                           THEN SendOf(op, args, made, NoneObj, post)
                           ELSE SendOf(op, args, made, post.value, AfterSave(post.value, status))
            /\ UNCHANGED <<client, url, files, created, lastCreate>>

\* call_soap_method_xml: the request is read from a file and parsed.
CallSoapMethodXml(xml, headers, status, post) ==
    LET raw_text_xml == _convert_xml_to_raw_text(files, xml)
        xml_obj == IF raw_text_xml.outcome = "raise" THEN raw_text_xml
                   ELSE LET parsed == FromString(raw_text_xml.value)
                        IN IF parsed.ok THEN Return(parsed.tree)
                           ELSE Raise("XMLSyntaxError", "not well-formed")
    IN PostXml("Call SOAP Method With XML", [xml |-> xml, headers |-> headers, status |-> status],
               xml_obj, headers, status, post)

\* call_soap_method_string_xml: the request is parsed from the string given.
CallSoapMethodStringXml(string_xml, headers, status, post) ==
    LET parsed == FromString(string_xml)
        xml_obj == IF parsed.ok THEN Return(parsed.tree)
                   ELSE Raise("XMLSyntaxError", "not well-formed")
    IN PostXml("Call SOAP Method With String XML",
               [string_xml |-> string_xml, headers |-> headers, status |-> status],
               xml_obj, headers, status, post)

-----------------------------------------------------------------------------
(* Call SOAP Method *)

\* What invoking an operation of the service can end with: the POST's response
\* (raw), and the value returned or the exception raised (reply).
OperationOutcomes(address) ==
    { [raw |-> Return(Response(sends + 1, address, a)),
       reply |-> IF a.status_code = HTTP_OK /\ FromString(a.text).ok
                 THEN Return(FromString(a.text).tree)
                 ELSE IF FromString(a.text).ok THEN Raise("Fault", "fault")
                 ELSE Raise("TransportError", "Server returned response (" \o ToString(a.status_code) \o ")")]
      : a \in Answers }
        \cup {[raw |-> Raise("ConnectionError", "Max retries exceeded"),
               reply |-> Raise("ConnectionError", "Max retries exceeded")]}

\* if status is None: response = method(*args); else: try ... except Exception
\* as e: response = str(e).  reply is what method(*args) ends with.
MethodResult_never_caught(status, reply) == reply

MethodResult(status, reply) ==
    IF status = None THEN reply
    ELSE IF reply.outcome = "raise" THEN Return(reply.msg)
    ELSE reply

\* self.response_obj after call_soap_method: the keyword does not store the response.
ResponseObjAfterMethod_stored(raw) == IF raw.outcome = "raise" THEN response_obj ELSE raw.value

ResponseObjAfterMethod(raw) == response_obj

\* call_soap_method.  operation is what invoking the operation ends with.
CallSoapMethod(name, args, status, operation) ==
    LET a == [name |-> name, args |-> args, status |-> status]
        op == "Call SOAP Method"
    IN IF client = NoneObj
       THEN /\ lastCall' = SendOf(op, a, NoneObj, NoneObj,
                                  Raise("AttributeError", "'NoneType' object has no attribute 'service'"))
                                @@ [reply |-> NoneObj]
            /\ UNCHANGED <<client, url, response_obj, files, created, sends, received, lastCreate>>
       ELSE IF name \notin Operations
       THEN /\ lastCall' = SendOf(op, a, NoneObj, NoneObj,
                                  Raise("AttributeError", "Service has no operation")) @@ [reply |-> NoneObj]
            /\ UNCHANGED <<client, url, response_obj, files, created, sends, received, lastCreate>>
       ELSE /\ sends < MaxSends
            /\ sends' = Sends(operation.raw)
            /\ received' = Received(operation.raw, FALSE)
            /\ response_obj' = ResponseObjAfterMethod(operation.raw)
            /\ lastCall' = SendOf(op, a, [client |-> client, address |-> client.address],
                                  IF operation.raw.outcome = "raise" THEN NoneObj ELSE operation.raw.value,
                                  MethodResult(status, operation.reply)) @@ [reply |-> operation.reply]
            /\ UNCHANGED <<client, url, files, created, lastCreate>>

-----------------------------------------------------------------------------
(* Get Last Response Object, Save XML To File *)

get_last_response_object == response_obj

GetLastResponseObject ==
    /\ lastCall' = CallOf("Get Last Response Object", <<>>, Return(get_last_response_object))
    /\ UNCHANGED <<client, url, response_obj, files, created, sends, received, lastCreate>>

\* save_xml_to_file: the file system after the call and the path returned.
save_xml_to_file(fs, etree_xml, save_folder, file_name) ==
    [fs |-> _save_to_file(fs, save_folder, file_name, tostring_pretty(etree_xml)),
     result |-> Return(NewFilePath(save_folder, file_name))]

SaveXmlToFile(etree_xml, save_folder, file_name) ==
    LET done == save_xml_to_file(files, etree_xml, save_folder, file_name)
    IN /\ files' = done.fs
       /\ lastCall' = CallOf("Save XML To File",
                             [etree_xml |-> etree_xml, save_folder |-> save_folder,
                              file_name |-> file_name],
                             done.result)
       /\ UNCHANGED <<client, url, response_obj, created, sends, received, lastCreate>>

-----------------------------------------------------------------------------
(* Decode Base64 *)

\* Base64 text is the sequence of its characters' values (0..63) and the number
\* of '=' that follow; bytes and code points are numbers.

\* base64.b64decode: the bytes, or the error of a text that ends inside a group.
RECURSIVE QuadBytes(_)
QuadBytes(sextets) ==
    IF Len(sextets) >= 4
    THEN << sextets[1] * 4 + (sextets[2] \div 16),
            (sextets[2] % 16) * 16 + (sextets[3] \div 4),
            (sextets[3] % 4) * 64 + sextets[4] >>
         \o QuadBytes(SubSeq(sextets, 5, Len(sextets)))
    ELSE IF Len(sextets) = 3
    THEN << sextets[1] * 4 + (sextets[2] \div 16), (sextets[2] % 16) * 16 + (sextets[3] \div 4) >>
    ELSE IF Len(sextets) = 2
    THEN << sextets[1] * 4 + (sextets[2] \div 16) >>
    ELSE <<>>

b64decode(text) ==
    LET rest == Len(text.sextets) % 4
    IN IF rest = 1
       THEN Raise("binascii.Error", "Invalid base64-encoded string")
       ELSE IF (rest = 2 /\ text.pads < 2) \/ (rest = 3 /\ text.pads < 1)
       THEN Raise("binascii.Error", "Incorrect padding")
       ELSE Return(QuadBytes(text.sextets))

IsContinuation(b) == 128 <= b /\ b <= 191

\* The length of the UTF-8 sequence a lead byte starts, 0 for a byte that starts none.
SequenceLength(b) ==
    IF b < 128 THEN 1
    ELSE IF 194 <= b /\ b <= 223 THEN 2
    ELSE IF 224 <= b /\ b <= 239 THEN 3
    ELSE IF 240 <= b /\ b <= 244 THEN 4
    ELSE 0

\* The second byte of a sequence is in the range its lead byte allows.
SecondByteFits(lead, b) ==
    IF lead = 224 THEN 160 <= b /\ b <= 191
    ELSE IF lead = 237 THEN 128 <= b /\ b <= 159
    ELSE IF lead = 240 THEN 144 <= b /\ b <= 191
    ELSE IF lead = 244 THEN 128 <= b /\ b <= 143
    ELSE IsContinuation(b)

\* How many bytes from position i on form a valid start of a sequence of length n.
RECURSIVE ValidPrefix(_, _, _, _)
ValidPrefix(bytes, i, n, k) ==
    IF k = n \/ i + k > Len(bytes) THEN k
    ELSE IF (k = 1 /\ SecondByteFits(bytes[i], bytes[i + k]))
            \/ (k > 1 /\ IsContinuation(bytes[i + k]))
         THEN ValidPrefix(bytes, i, n, k + 1)
         ELSE k

CodePoint(bytes, i, n) ==
    IF n = 1 THEN bytes[i]
    ELSE IF n = 2 THEN (bytes[i] % 32) * 64 + (bytes[i + 1] % 64)
    ELSE IF n = 3
    THEN (bytes[i] % 16) * 4096 + (bytes[i + 1] % 64) * 64 + (bytes[i + 2] % 64)
    ELSE (bytes[i] % 8) * 262144 + (bytes[i + 1] % 64) * 4096
            + (bytes[i + 2] % 64) * 64 + (bytes[i + 3] % 64)

\* bytes.decode('utf-8', 'ignore') from position i: the code points of the valid
\* sequences; the bytes of an invalid or cut sequence are dropped.
RECURSIVE DecodeUtf8Ignore(_, _)
DecodeUtf8Ignore(bytes, i) ==
    IF i > Len(bytes) THEN <<>>
    ELSE LET n == SequenceLength(bytes[i])
         IN IF n = 0 THEN DecodeUtf8Ignore(bytes, i + 1)
            ELSE LET k == ValidPrefix(bytes, i, n, 1)
                 IN IF k = n THEN <<CodePoint(bytes, i, n)>> \o DecodeUtf8Ignore(bytes, i + n)
                    ELSE DecodeUtf8Ignore(bytes, i + k)

decode_base64(response) ==
    LET response_decode == b64decode(response)
    IN IF response_decode.outcome = "raise" THEN response_decode
       ELSE Return(DecodeUtf8Ignore(response_decode.value, 1))

DecodeBase64(response) ==
    /\ lastCall' = CallOf("Decode Base64", [response |-> response], decode_base64(response))
    /\ UNCHANGED <<client, url, response_obj, files, created, sends, received, lastCreate>>

\* Base64 texts: "MQ==" (the digit 1), "w6k=" (e acute, two bytes), "/w==" (a
\* byte that is no UTF-8) and "MQ=" (cut padding).
EncodedTexts ==
    { [sextets |-> <<12, 16>>, pads |-> 2], [sextets |-> <<48, 58, 36>>, pads |-> 1],
      [sextets |-> <<63, 48>>, pads |-> 2], [sextets |-> <<12, 16>>, pads |-> 1] }

-----------------------------------------------------------------------------
(* One library instance and the calls a suite makes on it *)

\* The request file of the suite, and a request given as a string.
RequestTree == <<RootNode, Node(QName("", "b"), "1", None, 1), Node(QName("", "b"), "2", None, 1)>>

RequestString == tostring(RequestTree)

NotXmlString == <<TokOpen(QName("", "a"))>>

StatusArgs == {None, "anything"}

EditedPath == Path(Folder, "edited.xml")

SavedPath == Path(Folder, "saved.xml")

\* The instance is new; the folder is as an earlier run of the suite left it:
\* the request, the edited request and the saved response.
Init ==
    /\ InitInstance
    /\ files = [p \in {RequestPath, EditedPath, SavedPath} |->
                    IF p = RequestPath THEN RequestString
                    ELSE IF p = SavedPath THEN tostring_pretty(ResultTree)
                    ELSE tostring(SetText(RequestTree, {2}, "v1"))]

Next ==
    \/ \E u \in WsdlUrls, binding \in BOOLEAN, loads \in BOOLEAN :
            CreateSoapClient(u, TRUE, None, None, binding, loads)
    \/ \E path \in {RequestPath, Path(Folder, "missing.xml")}, status \in StatusArgs,
          post \in PostOutcomes(PostAddress) :
            CallSoapMethodXml(path, DEFAULT_HEADERS, status, post)
    \/ \E text \in {RequestString, NotXmlString}, status \in StatusArgs,
          post \in PostOutcomes(PostAddress) :
            CallSoapMethodStringXml(text, DEFAULT_HEADERS, status, post)
    \/ \E name \in Operations \cup {"unknown"}, status \in StatusArgs,
          operation \in OperationOutcomes(IF client = NoneObj THEN None ELSE client.address) :
            CallSoapMethod(name, <<"arg">>, status, operation)
    \/ GetLastResponseObject
    \/ \E index \in 1..2 : GetDataFromXmlTag(ResultTree, [list |-> FALSE, tag |-> "b"], index)
    \/ ConvertResponseDict(ResultTree)
    \/ EditXml(RequestPath, [dict |-> TRUE, items |-> <<Item("b", "v1")>>], "edited",
               [int |-> TRUE, n |-> 0])
    \/ SaveXmlToFile(ResultTree, Folder, "saved")
    \/ \E text \in EncodedTexts : DecodeBase64(text)

Spec == Init /\ [][Next]_vars

-----------------------------------------------------------------------------
(* Claims about the instance *)

XmlSendOps == {"Call SOAP Method With XML", "Call SOAP Method With String XML"}

IsXmlSend == lastCall.op \in XmlSendOps

IsMethodCall == lastCall.op = "Call SOAP Method"

\* The last call received a response from the transport.
GotResponse == lastCall.response # NoneObj

\* The last call is an XML send that received a response whose body is XML: the
\* send reached the status check.
ReachedStatusCheck == IsXmlSend /\ GotResponse /\ FromString(lastCall.response.text).ok

\* C1 as claimed: an XML send (by file path or by string) that received a
\* response fails with an AssertionError carrying the status code and the reason
\* phrase when status is None and the code is not 200; with any other status, or
\* with code 200, it returns the parsed response tree.
C1_StatusPolicyAnyBody ==
    (IsXmlSend /\ GotResponse) =>
        LET r == lastCall.response
        IN IF lastCall.args.status = None /\ r.status_code # 200
           THEN lastCall.result =
                    Raise("AssertionError",
                          "Request Error! Status Code: " \o ToString(r.status_code)
                                \o "! Reason: " \o r.reason)
           ELSE /\ FromString(r.text).ok
                /\ lastCall.result = Return(FromString(r.text).tree)

\* C1 as amended: the body of the response is parsed before the status check.
\* An XML send that received a response whose body is not well-formed XML fails
\* with the parser's error whatever status and the status code are. With a
\* well-formed body it fails with an AssertionError carrying the status code
\* and the reason phrase when status is None and the code is not 200, and
\* returns the parsed response tree with any other status or with code 200.
C1_StatusPolicy ==
    (IsXmlSend /\ GotResponse) =>
        LET r == lastCall.response
        IN IF ~FromString(r.text).ok
           THEN lastCall.result = Raise("XMLSyntaxError", "not well-formed")
           ELSE IF lastCall.args.status = None /\ r.status_code # 200
           THEN lastCall.result =
                    Raise("AssertionError",
                          "Request Error! Status Code: " \o ToString(r.status_code)
                                \o "! Reason: " \o r.reason)
           ELSE lastCall.result = Return(FromString(r.text).tree)

\* C1 witness: a send with a status argument returned the tree of a response
\* whose status code is 500.
C1_Witness ==
    /\ ReachedStatusCheck
    /\ lastCall.args.status # None
    /\ lastCall.response.status_code = 500
    /\ lastCall.result = Return(FromString(FaultBody).tree)

\* C2 as claimed: Get Last Response Object is None before any send, and
\* otherwise the raw response of the most recent send, whichever of the three
\* send keywords made it.
C2_SlotIsMostRecentSend ==
    /\ sends = 0 => get_last_response_object = NoneObj
    /\ sends > 0 => get_last_response_object = received.last

\* C2 as amended: Get Last Response Object is None until an XML send (by file
\* path or by string) has received a response, and otherwise is the raw
\* response of the most recent XML send that received one; no other keyword
\* (create client, operation call, field lookup, edit, save, convert, decode,
\* the getter itself) changes the slot.
C2_SlotIsMostRecentXmlSend ==
    /\ get_last_response_object = received.lastXml
    /\ lastCall.op = "Get Last Response Object" => lastCall.result = Return(received.lastXml)

\* C2 witness: the getter returned the response of the second XML send.
C2_Witness ==
    /\ lastCall.op = "Get Last Response Object"
    /\ lastCall.result.value # NoneObj
    /\ lastCall.result.value = received.lastXml
    /\ lastCall.result.value.id = 2

\* C3 as claimed: after a call of any of the three send keywords that received
\* a response, Get Last Response Object is the response of that call.
C3_EverySendUpdatesSlot ==
    ((IsXmlSend \/ IsMethodCall) /\ GotResponse) => get_last_response_object = lastCall.response

\* C3 as amended: after an XML send (by file path or by string) that received
\* a response, Get Last Response Object is the response of that call; a call of
\* Call SOAP Method does not update the slot: it leaves what it was before the call.
C3_XmlSendsUpdateSlot ==
    [][ /\ (IsXmlSend /\ GotResponse)' => get_last_response_object' = lastCall'.response
        /\ IsMethodCall' => response_obj' = response_obj ]_vars

\* C3 witness: an operation call received a response and the slot still holds
\* the response of the earlier XML send.
C3_Witness ==
    /\ IsMethodCall
    /\ GotResponse
    /\ response_obj # NoneObj
    /\ response_obj # lastCall.response
    /\ response_obj = received.lastXml

\* C8: when the operation invoked raises, Call SOAP Method raises the same
\* exception if status is None and returns the exception's message as a string
\* otherwise; when the operation returns, its value is returned unchanged.
C8_MethodFailurePolicy ==
    (IsMethodCall /\ lastCall.reply # NoneObj) =>
        IF lastCall.reply.outcome = "raise"
        THEN IF lastCall.args.status = None
             THEN lastCall.result = lastCall.reply
             ELSE lastCall.result = Return(lastCall.reply.msg)
        ELSE lastCall.result = lastCall.reply

\* C8 witness: the operation raised, status was set, and the message came back.
C8_Witness ==
    /\ IsMethodCall
    /\ lastCall.reply # NoneObj
    /\ lastCall.reply.outcome = "raise"
    /\ lastCall.args.status # None
    /\ lastCall.result = Return("fault")

\* The url a successful Create SOAP Client call leaves: the binding address of
\* the service description when use_binding_address is true, the WSDL url otherwise.
UrlOfCreate(c) == IF c.args.use_binding_address THEN BindingAddress(c.args.url) ELSE c.args.url

\* C9: when the most recent Create SOAP Client call succeeded, the active
\* client is the one that call built (the latest built, from that call's WSDL
\* url), the target url is that call's url, and an XML send made since posts
\* with that client to that url.
C9_LatestClientAndUrl ==
    (lastCreate # NoneObj /\ lastCreate.loads) =>
        /\ client # NoneObj
        /\ client.id = created
        /\ client.wsdl = lastCreate.args.url
        /\ url = UrlOfCreate(lastCreate)
        /\ (IsXmlSend /\ lastCall.post # NoneObj) =>
                /\ lastCall.post.client = client
                /\ lastCall.post.address = UrlOfCreate(lastCreate)

\* C9 witness: the second client was built with use_binding_address, and an
\* XML send posted with it to the binding address.
C9_Witness ==
    /\ lastCreate # NoneObj
    /\ lastCreate.loads
    /\ lastCreate.args.use_binding_address
    /\ created = 2
    /\ IsXmlSend
    /\ lastCall.post # NoneObj
    /\ lastCall.post.client.id = 2
    /\ lastCall.post.address = BindingAddress(lastCreate.args.url)

\* C10: a Create SOAP Client call that fails while a client is active leaves
\* the client and the target url as they were before the call.
C10_FailedCreateChangesNothing ==
    [][(client # NoneObj /\ lastCall'.op = "Create SOAP Client" /\ lastCall'.result.outcome = "raise")
            => (client' = client /\ url' = url)]_vars

\* The last call is an XML send that failed with the AssertionError of the
\* status check: status unset and a response code other than 200.
FailedStatusCheck ==
    /\ IsXmlSend
    /\ GotResponse
    /\ lastCall.args.status = None
    /\ lastCall.response.status_code # 200
    /\ lastCall.result.outcome = "raise"
    /\ lastCall.result.exc = "AssertionError"

\* C11: in both XML sends the response is stored before the status check: a
\* send that fails with the AssertionError for a non-200 status has overwritten
\* the slot, so Get Last Response Object after it returns the failing response
\* and not what the slot held before the send.
C11_FailedSendOverwritesSlot ==
    [][ FailedStatusCheck' =>
            /\ get_last_response_object' = lastCall'.response
            /\ get_last_response_object' # response_obj ]_vars

\* C11 witness: the second response received failed the status check of an XML
\* send after an XML send had stored the first one, and the slot holds the
\* failing response.
C11_Witness ==
    /\ FailedStatusCheck
    /\ lastCall.response.id = 2
    /\ lastCall.response.status_code = 500
    /\ received.lastXml = lastCall.response
    /\ response_obj = lastCall.response

====
